---- MODULE Spec2Model ----
(***************************************************************************)
(* Operational scripts and configuration of luonnonmetsakartta-service:    *)
(* the migration script, the Compose topology and devcontainer, the        *)
(* dev/sandbox entrypoints and the data-cleaning notebook.  Each part is   *)
(* an independent state machine with its own specification; the variables  *)
(* of the parts that a specification does not run stay at their idle       *)
(* value.                                                                  *)
(***************************************************************************)
EXTENDS Integers, Sequences, FiniteSets, TLC

VARIABLES
    \* ---- migration script (notebooks/check_data.ipynb 235-259)
    mpc,          \* position of the migration script
    isProd,       \* the shell variable IS_PRODUCTION: [set, value, exported]
    isProd0,      \* IS_PRODUCTION as it was when the script started
    origIsProd,   \* the shell variable ORIGINAL_IS_PRODUCTION
    dotenv,       \* the file .env: absent, or what it does to IS_PRODUCTION
    alembicSaw,   \* IS_PRODUCTION in the environment of the alembic process
    alembicRc,    \* exit status of `alembic upgrade head` (-1: not run)
    mout,         \* lines echoed by the script
    mexit,        \* exit status of the script (-1: still running)
    \* ---- Compose topology (docker-compose.yml, devcontainer.json)
    composeProfiles, \* COMPOSE_PROFILES of the last `docker compose up`
    container,    \* service -> absent | running | exited
    attached,     \* service -> the networks its container is attached to
    upBy,         \* who brought the project up last: none | compose | devcontainer
    started,      \* the services the last `up` started
    \* ---- entrypoint scripts (unnamed/part_000, docker-compose.yml 138-145)
    script,       \* which entrypoint script the container runs
    epc,          \* index of the script's next command
    fg,           \* the foreground process the script waits for, or "none"
    installRc,    \* exit status of `poetry install` (-1: not run)
    web,          \* web process: [state, bind, rc]
    notebook,     \* notebook server: [state, bind, token, rc]
    launched,     \* the server processes in the order they were launched
    notebookToken, \* the environment variable NOTEBOOK_TOKEN
    lastRequest,  \* the last request to the notebook server and its outcome
    rootHist,     \* /root/.bash_history: a regular file or the symlink
    devHist,      \* /root/dev/.bash_history: [exists, content]
    lastRc,       \* $?: exit status of the script's last finished command
    eexit,        \* exit status of the script (-1: still running)
    starts,       \* how many times the container has been started
    \* ---- deduplication cell (notebooks/check_data.ipynb 156-202)
    dpc,          \* position in the cell
    test_data_zip, \* the features of ../data/test_data.zip, in file order
    gdf,          \* the GeoDataFrame read from it
    combo_counts, \* rows [nimi, kunta, count]
    unique_combos, \* rows [nimi, kunta]
    non_unique_combos, \* rows [nimi, kunta, count]
    gdf_unique,   \* the merged GeoDataFrame
    out_shp,      \* the features of unique_name_mun.shp
    zip_path,     \* the features in unique_name_mun.zip
    \* ---- notebook kernel (check_data.ipynb 1-211, README.md 106-262)
    nbfile,       \* the notebook that is run
    objCols,      \* the columns of the test data that have dtype object
    cellIdx,      \* index of the cell being run
    stmtIdx,      \* index of the cell's next statement
    ns,           \* the names bound in the kernel's namespace
    kstatus,      \* idle | running | NameError | finished
    \* ---- bounding-box cell (notebooks/check_data.ipynb 93-126)
    bpc,          \* position in the cell
    wgs_coords,   \* the box in EPSG:4326, in thousandths of a degree
    sw,           \* the transformed corners <<x, y>>, in metres
    se,
    ne,
    nw,
    etrs_coords,  \* the box in EPSG:3067, in metres
    bout          \* the lines the cell prints

migrationVars == <<mpc, isProd, isProd0, origIsProd, dotenv, alembicSaw,
                   alembicRc, mout, mexit>>

composeVars == <<composeProfiles, container, attached, upBy, started>>

entryVars == <<script, epc, fg, installRc, web, notebook, launched,
               notebookToken, lastRequest, rootHist, devHist, lastRc, eexit,
               starts>>

dedupVars == <<dpc, test_data_zip, gdf, combo_counts, unique_combos,
               non_unique_combos, gdf_unique, out_shp, zip_path>>

kernelVars == <<nbfile, objCols, cellIdx, stmtIdx, ns, kstatus>>

bboxVars == <<bpc, wgs_coords, sw, se, ne, nw, etrs_coords, bout>>

notMigration == <<composeVars, entryVars, dedupVars, kernelVars, bboxVars>>

notCompose == <<migrationVars, entryVars, dedupVars, kernelVars, bboxVars>>

notEntry == <<migrationVars, composeVars, dedupVars, kernelVars, bboxVars>>

notDedup == <<migrationVars, composeVars, entryVars, kernelVars, bboxVars>>

notKernel == <<migrationVars, composeVars, entryVars, dedupVars, bboxVars>>

notBbox == <<migrationVars, composeVars, entryVars, dedupVars, kernelVars>>

vars == <<migrationVars, composeVars, entryVars, dedupVars, kernelVars,
          bboxVars>>

----------------------------------------------------------------------------
(* Compose topology and devcontainer                                       *)

\* services: of docker-compose.yml
Services == {"app-dev", "app-sandbox", "postgis-dev", "postgis-test"}

AppServices == {"app-dev", "app-sandbox"}

\* The profiles README names for COMPOSE_PROFILES: dev, sandbox, or prod.
ProfileNames == {"dev", "sandbox", "prod"}

ServiceProfilesTestDevOnly(s) ==
    CASE s = "app-dev" -> {"dev"}
      [] s = "app-sandbox" -> {"sandbox"}
      [] s = "postgis-dev" -> {"dev"}
      [] s = "postgis-test" -> {"dev"}

\* profiles: of each service
ServiceProfiles(s) ==
    CASE s = "app-dev" -> {"dev"}
      [] s = "app-sandbox" -> {"sandbox"}
      [] s = "postgis-dev" -> {"dev"}
      [] s = "postgis-test" -> {"dev", "sandbox"}

\* networks: of each service
ServiceNetworks(s) == {"luonnonmetsakartta-net"}

\* restart: of each service (Compose's default is "no")
RestartPolicy(s) ==
    IF s \in {"postgis-dev", "postgis-test"} THEN "unless-stopped" ELSE "no"

\* ports: of each service, as <<host port variable, container port>>; the
\* database ports are variables on both sides.
PublishedPorts(s) ==
    CASE s \in AppServices -> {<<"DEV_PORT", "80">>, <<"NOTEBOOK_PORT", "8888">>}
      [] s = "postgis-dev" -> {<<"DEV_POSTGRES_OUT_PORT", "DEV_POSTGRES_PORT">>}
      [] s = "postgis-test" -> {<<"TEST_POSTGRES_OUT_PORT", "TEST_POSTGRES_PORT">>}

\* devcontainer.json: "service"
DevcontainerService == "app-sandbox"

\* devcontainer.json: "runServices"
RunServices == {"app-sandbox", "postgis-dev", "postgis-test"}

\* Compose enables a service when it has no profiles or one of its profiles
\* is active.
Enabled(s, profiles) ==
    ServiceProfiles(s) = {} \/ ServiceProfiles(s) \cap profiles # {}

EnabledServices(profiles) == {s \in Services : Enabled(s, profiles)}

ComposeIdle ==
    /\ composeProfiles = {}
    /\ container = [s \in Services |-> "absent"]
    /\ attached = [s \in Services |-> {}]
    /\ upBy = "none"
    /\ started = {}

\* Starting the containers of the services in S: each is created if absent,
\* (re)started, and attached to the networks of its service.
StartServices(S) ==
    /\ container' = [s \in Services |-> IF s \in S THEN "running" ELSE container[s]]
    /\ attached' = [s \in Services |->
                       IF s \in S THEN ServiceNetworks(s) ELSE attached[s]]
    /\ started' = S

\* COMPOSE_PROFILES=<profiles> docker-compose up --build -d
ComposeUp(profiles) ==
    /\ composeProfiles' = profiles
    /\ StartServices(EnabledServices(profiles))
    /\ upBy' = "compose"
    /\ UNCHANGED notCompose

\* "Dev Containers: Reopen in Container": compose up of the runServices,
\* named explicitly, which starts them whatever profiles are active.
DevcontainerUp ==
    /\ StartServices(RunServices \cup {DevcontainerService})
    /\ upBy' = "devcontainer"
    /\ UNCHANGED composeProfiles
    /\ UNCHANGED notCompose

\* The main process of a running container exits.
ContainerExit(s) ==
    /\ container[s] = "running"
    /\ container' = [container EXCEPT ![s] = "exited"]
    /\ UNCHANGED <<composeProfiles, attached, upBy, started>>
    /\ UNCHANGED notCompose

\* restart: unless-stopped
ContainerRestart(s) ==
    /\ container[s] = "exited"
    /\ RestartPolicy(s) = "unless-stopped"
    /\ container' = [container EXCEPT ![s] = "running"]
    /\ UNCHANGED <<composeProfiles, attached, upBy, started>>
    /\ UNCHANGED notCompose

----------------------------------------------------------------------------
(* Shell variables                                                         *)

Unset == [set |-> FALSE, value |-> "", exported |-> FALSE]

\* "$NAME": an unset variable expands to the empty string.
Expand(v) == IF v.set THEN v.value ELSE ""

\* NAME=value: the variable keeps its export attribute.
Assign(v, val) == [set |-> TRUE, value |-> val, exported |-> v.exported]

\* export NAME=value
Export(v, val) == [set |-> TRUE, value |-> val, exported |-> TRUE]

\* What a child process finds in its environment: exported variables only.
ChildEnv(v) == IF v.set /\ v.exported THEN v.value ELSE "<unset>"

----------------------------------------------------------------------------
(* Entrypoint scripts                                                      *)

\* The three entrypoint scripts: "sandbox" is unnamed/part_000 1-8, "dev"
\* is unnamed/part_000 11-27 (it seeds the bash history first), "prod" is
\* docker-compose.yml 138-145.
EntrypointScripts == {"sandbox", "dev", "prod"}

NotebookScripts == {"sandbox", "dev"}

ScriptCommandsJupyterFirst(sc) ==
    CASE sc = "sandbox" -> <<"bashrc", "install", "jupyter", "uvicorn">>
      [] sc = "dev" -> <<"history", "bashrc", "install", "jupyter", "uvicorn">>
      [] sc = "prod" -> <<"bashrc", "install", "gunicorn">>

\* The commands of each script in file order.
ScriptCommands(sc) ==
    CASE sc = "sandbox" -> <<"bashrc", "install", "uvicorn", "jupyter">>
      [] sc = "dev" -> <<"history", "bashrc", "install", "uvicorn", "jupyter">>
      [] sc = "prod" -> <<"bashrc", "install", "gunicorn">>

UvicornBindDefault == <<"127.0.0.1", "8000">>

\* uvicorn --host 0.0.0.0 --port 80
UvicornBind == <<"0.0.0.0", "80">>

\* gunicorn --bind 0.0.0.0:80
GunicornBind == <<"0.0.0.0", "80">>

\* jupyter notebook --ip='*', and no --port: Jupyter's default port
JupyterBind == <<"*", "8888">>

\* Values of NOTEBOOK_TOKEN, and the tokens a client may present ("<none>":
\* a request that carries no token).
TokenValues == {"", "s3cret"}

RequestTokens == {"<none>", "s3cret", "guess"}

\* Contents of a bash history file.
HistContents == {"", "container history", "persisted history"}

\* Exit statuses of a command or process: success or failure.
ExitStatuses == {0, 1}

NoProcess == [state |-> "none", bind |-> <<>>, token |-> "", rc |-> -1]

\* --NotebookApp.token="${NOTEBOOK_TOKEN}" --NotebookApp.password='': an
\* empty token with an empty password switches Jupyter's authentication
\* off; otherwise a request is let in when it presents the token.
Accepts(token, presented) == token = "" \/ presented = token

FreshRootHist == [kind |-> "file", content |-> ""]

NoDevHist == [exists |-> FALSE, content |-> ""]

EntryIdle ==
    /\ script = "none"
    /\ epc = 0
    /\ fg = "none"
    /\ installRc = -1
    /\ web = NoProcess
    /\ notebook = NoProcess
    /\ launched = <<>>
    /\ notebookToken = Unset
    /\ lastRequest = [made |-> FALSE, token |-> "<none>", accepted |-> FALSE]
    /\ rootHist = FreshRootHist
    /\ devHist = NoDevHist
    /\ lastRc = 0
    /\ eexit = -1
    /\ starts = 0

\* The command the script is at, "end" after the last one.
Cmd ==
    IF epc <= Len(ScriptCommands(script)) THEN ScriptCommands(script)[epc]
    ELSE "end"

\* The script is running and not waiting for a foreground process.
Ready == script \in EntrypointScripts /\ fg = "none" /\ eexit = -1

SeedDevHistAlwaysFromRoot(root, dev) ==
    IF root.kind = "symlink" THEN dev
    ELSE [exists |-> TRUE, content |-> root.content]

\* /root/dev/.bash_history after `if [ -f dev ]; then cp dev root; else
\* cp root dev; fi`: only the else branch writes it, and there cp fails on
\* a dangling symlink (root is the symlink and dev does not exist).
SeedDevHist(root, dev) ==
    IF dev.exists \/ root.kind = "symlink" THEN dev
    ELSE [exists |-> TRUE, content |-> root.content]

\* /root/.bash_history after `rm -f root; ln -s dev root`: whatever the cp
\* did to it (cp refuses to copy a file onto itself, the symlink), it is
\* removed and made the symlink.
SeedRootHist(root, dev) == [kind |-> "symlink", content |-> ""]

\* part_000 13-20: if [ -f /root/dev/.bash_history ]; then cp dev root;
\* else cp root dev; fi; rm -f root; ln -s dev root.  cp refuses to copy a
\* file onto itself (the symlink) and fails on a dangling symlink.
SeedHistory ==
    /\ Ready /\ Cmd = "history"
    /\ devHist' = SeedDevHist(rootHist, devHist)
    /\ rootHist' = SeedRootHist(rootHist, devHist)
    /\ lastRc' = 0
    /\ epc' = epc + 1
    /\ UNCHANGED <<script, fg, installRc, web, notebook, launched,
                   notebookToken, lastRequest, eexit>>
    /\ UNCHANGED <<starts, notEntry>>

\* source /root/.bashrc >/dev/null 2>&1
SourceBashrc ==
    /\ Ready /\ Cmd = "bashrc"
    /\ \E rc \in ExitStatuses : lastRc' = rc
    /\ epc' = epc + 1
    /\ UNCHANGED <<script, fg, installRc, web, notebook, launched,
                   notebookToken, lastRequest, rootHist, devHist, eexit>>
    /\ UNCHANGED <<starts, notEntry>>

PoetryInstallErrexit ==
    /\ Ready /\ Cmd = "install"
    /\ \E rc \in ExitStatuses :
           /\ installRc' = rc
           /\ lastRc' = rc
           /\ IF rc = 0 THEN epc' = epc + 1 /\ eexit' = eexit
              ELSE epc' = epc /\ eexit' = rc
    /\ UNCHANGED <<script, fg, web, notebook, launched, notebookToken,
                   lastRequest, rootHist, devHist>>
    /\ UNCHANGED <<starts, notEntry>>

\* poetry install: the script goes on whatever its exit status
PoetryInstall ==
    /\ Ready /\ Cmd = "install"
    /\ \E rc \in ExitStatuses : installRc' = rc /\ lastRc' = rc
    /\ epc' = epc + 1
    /\ UNCHANGED <<script, fg, web, notebook, launched, notebookToken,
                   lastRequest, rootHist, devHist, eexit>>
    /\ UNCHANGED <<starts, notEntry>>

\* poetry run uvicorn --host 0.0.0.0 --port 80 ... &
LaunchUvicorn ==
    /\ Ready /\ Cmd = "uvicorn"
    /\ web' = [state |-> "starting", bind |-> UvicornBind, token |-> "", rc |-> -1]
    /\ launched' = Append(launched, "web")
    /\ lastRc' = 0
    /\ epc' = epc + 1
    /\ UNCHANGED <<script, fg, installRc, notebook, notebookToken,
                   lastRequest, rootHist, devHist, eexit>>
    /\ UNCHANGED <<starts, notEntry>>

\* poetry run jupyter notebook --ip='*' --NotebookApp.token=... (foreground)
LaunchJupyter ==
    /\ Ready /\ Cmd = "jupyter"
    /\ notebook' = [state |-> "starting", bind |-> JupyterBind,
                    token |-> Expand(notebookToken), rc |-> -1]
    /\ launched' = Append(launched, "notebook")
    /\ fg' = "notebook"
    /\ UNCHANGED <<script, epc, installRc, web, notebookToken, lastRequest,
                   rootHist, devHist, lastRc, eexit>>
    /\ UNCHANGED <<starts, notEntry>>

\* poetry run gunicorn -k uvicorn.workers.UvicornWorker ... (foreground)
LaunchGunicorn ==
    /\ Ready /\ Cmd = "gunicorn"
    /\ web' = [state |-> "starting", bind |-> GunicornBind, token |-> "", rc |-> -1]
    /\ launched' = Append(launched, "web")
    /\ fg' = "web"
    /\ UNCHANGED <<script, epc, installRc, notebook, notebookToken,
                   lastRequest, rootHist, devHist, lastRc, eexit>>
    /\ UNCHANGED <<starts, notEntry>>

ForegroundReturnsOnAnyExit ==
    /\ script \in EntrypointScripts /\ eexit = -1
    /\ \/ /\ fg = "notebook"
          /\ \/ notebook.state = "exited" /\ lastRc' = notebook.rc
             \/ web.state = "exited" /\ lastRc' = web.rc
       \/ fg = "web" /\ web.state = "exited" /\ lastRc' = web.rc
    /\ fg' = "none"
    /\ epc' = epc + 1
    /\ UNCHANGED <<script, installRc, web, notebook, launched, notebookToken,
                   lastRequest, rootHist, devHist, eexit>>
    /\ UNCHANGED <<starts, notEntry>>

\* The foreground process has exited: the script goes on after it.
ForegroundReturns ==
    /\ script \in EntrypointScripts /\ eexit = -1
    /\ \/ fg = "notebook" /\ notebook.state = "exited" /\ lastRc' = notebook.rc
       \/ fg = "web" /\ web.state = "exited" /\ lastRc' = web.rc
    /\ fg' = "none"
    /\ epc' = epc + 1
    /\ UNCHANGED <<script, installRc, web, notebook, launched, notebookToken,
                   lastRequest, rootHist, devHist, eexit>>
    /\ UNCHANGED <<starts, notEntry>>

Killed(p) == IF p.state \in {"starting", "listening"}
             THEN [p EXCEPT !.state = "exited", !.rc = 137]
             ELSE p

\* End of the script: it exits with the status of its last command, and the
\* container stops with its main process, which ends what still runs in it.
ScriptEnd ==
    /\ Ready /\ Cmd = "end"
    /\ eexit' = lastRc
    /\ web' = Killed(web)
    /\ notebook' = Killed(notebook)
    /\ UNCHANGED <<script, epc, fg, installRc, launched, notebookToken,
                   lastRequest, rootHist, devHist, lastRc>>
    /\ UNCHANGED <<starts, notEntry>>

\* Most starts of the container.
MaxStarts == 2

\* The stopped container is started again (docker-compose up): its file
\* system and the volume python-dev are as they were left, and the
\* entrypoint script runs from its first command.
RestartContainer ==
    /\ script \in EntrypointScripts /\ eexit # -1
    /\ starts < MaxStarts
    /\ starts' = starts + 1
    /\ epc' = 1
    /\ fg' = "none"
    /\ installRc' = -1
    /\ web' = NoProcess
    /\ notebook' = NoProcess
    /\ launched' = <<>>
    /\ lastRc' = 0
    /\ eexit' = -1
    /\ UNCHANGED <<script, notebookToken, lastRequest, rootHist, devHist>>
    /\ UNCHANGED notEntry

\* The web process has bound its socket and serves.
WebListen ==
    /\ web.state = "starting"
    /\ web' = [web EXCEPT !.state = "listening"]
    /\ UNCHANGED <<script, epc, fg, installRc, notebook, launched,
                   notebookToken, lastRequest, rootHist, devHist, lastRc, eexit>>
    /\ UNCHANGED <<starts, notEntry>>

\* The web process fails to start, crashes or exits.
WebExit ==
    /\ web.state \in {"starting", "listening"}
    /\ \E rc \in ExitStatuses : web' = [web EXCEPT !.state = "exited", !.rc = rc]
    /\ UNCHANGED <<script, epc, fg, installRc, notebook, launched,
                   notebookToken, lastRequest, rootHist, devHist, lastRc, eexit>>
    /\ UNCHANGED <<starts, notEntry>>

\* The notebook server has bound its socket and serves.
NotebookListen ==
    /\ notebook.state = "starting"
    /\ notebook' = [notebook EXCEPT !.state = "listening"]
    /\ UNCHANGED <<script, epc, fg, installRc, web, launched, notebookToken,
                   lastRequest, rootHist, devHist, lastRc, eexit>>
    /\ UNCHANGED <<starts, notEntry>>

\* The notebook server fails to start, crashes or exits.
NotebookExit ==
    /\ notebook.state \in {"starting", "listening"}
    /\ \E rc \in ExitStatuses :
           notebook' = [notebook EXCEPT !.state = "exited", !.rc = rc]
    /\ UNCHANGED <<script, epc, fg, installRc, web, launched, notebookToken,
                   lastRequest, rootHist, devHist, lastRc, eexit>>
    /\ UNCHANGED <<starts, notEntry>>

\* A client sends the notebook server a request presenting `presented`.
NotebookRequest(presented) ==
    /\ notebook.state = "listening"
    /\ lastRequest' = [made |-> TRUE, token |-> presented,
                       accepted |-> Accepts(notebook.token, presented)]
    /\ UNCHANGED <<script, epc, fg, installRc, web, notebook, launched,
                   notebookToken, rootHist, devHist, lastRc, eexit>>
    /\ UNCHANGED <<starts, notEntry>>

----------------------------------------------------------------------------
(* Deduplication cell of the notebook                                      *)

\* Most features of the input file.
MaxFeatures == 3

\* A missing attribute value: None in the GeoDataFrame.  The shapefile
\* reader returns an empty text field as missing.
Null == "<null>"

\* Values of the columns nimi (name) and kunta (municipality).
Names == {Null, "Aarnimetsa", "Korpi"}

Municipalities == {Null, "Kuhmo", "Inari"}

\* A feature: its place in the input file and its two key attributes.
FeaturesOf(n) ==
    {f \in [1..n -> [fid : 1..n, nimi : Names, kunta : Municipalities]] :
        \A i \in 1..n : f[i].fid = i}

InputFiles == UNION {FeaturesOf(n) : n \in 0..MaxFeatures}

\* name_col = 'nimi', mun_col = 'kunta'
Key(row) == <<row.nimi, row.kunta>>

IsNa(k) == k[1] = Null \/ k[2] = Null

Count(rows, k) == Cardinality({i \in DOMAIN rows : Key(rows[i]) = k})

\* gdf.groupby([name_col, mun_col]).size().reset_index(name='count'):
\* groupby leaves out the rows with a missing value in a key column
\* (dropna=True, the default).
GroupBySize(rows) ==
    {[nimi |-> k[1], kunta |-> k[2], count |-> Count(rows, k)] :
        k \in {kk \in {Key(rows[i]) : i \in DOMAIN rows} : ~IsNa(kk)}}

\* combo_counts[combo_counts['count'] == 1][[name_col, mun_col]]
UniqueCombos(counts) ==
    {[nimi |-> c.nimi, kunta |-> c.kunta] : c \in {cc \in counts : cc.count = 1}}

\* combo_counts[combo_counts['count'] > 1]
NonUniqueCombos(counts) == {c \in counts : c.count > 1}

Matches(row, right) == \E c \in right : c.nimi = row.nimi /\ c.kunta = row.kunta

\* gdf.merge(unique_combos, on=[name_col, mun_col], how='inner'): the rows
\* of gdf, in order, that have a row with equal keys in unique_combos
\* (unique_combos holds each key once).
MergeInner(left, right) == SelectSeq(left, LAMBDA row : Matches(row, right))

DedupIdle ==
    /\ dpc = "idle"
    /\ test_data_zip = <<>>
    /\ gdf = <<>>
    /\ combo_counts = {}
    /\ unique_combos = {}
    /\ non_unique_combos = {}
    /\ gdf_unique = <<>>
    /\ out_shp = <<>>
    /\ zip_path = <<>>

\* gdf = gpd.read_file(shp_path)
ReadFile ==
    /\ dpc = "read"
    /\ gdf' = test_data_zip
    /\ dpc' = "count"
    /\ UNCHANGED <<test_data_zip, combo_counts, unique_combos,
                   non_unique_combos, gdf_unique, out_shp, zip_path>>
    /\ UNCHANGED notDedup

\* combo_counts = ...
CountCombos ==
    /\ dpc = "count"
    /\ combo_counts' = GroupBySize(gdf)
    /\ dpc' = "select"
    /\ UNCHANGED <<test_data_zip, gdf, unique_combos, non_unique_combos,
                   gdf_unique, out_shp, zip_path>>
    /\ UNCHANGED notDedup

\* unique_combos = ...; non_unique_combos = ...
SelectCombos ==
    /\ dpc = "select"
    /\ unique_combos' = UniqueCombos(combo_counts)
    /\ non_unique_combos' = NonUniqueCombos(combo_counts)
    /\ dpc' = "merge"
    /\ UNCHANGED <<test_data_zip, gdf, combo_counts, gdf_unique, out_shp, zip_path>>
    /\ UNCHANGED notDedup

\* gdf_unique = gdf.merge(...)
MergeUnique ==
    /\ dpc = "merge"
    /\ gdf_unique' = MergeInner(gdf, unique_combos)
    /\ dpc' = "write"
    /\ UNCHANGED <<test_data_zip, gdf, combo_counts, unique_combos,
                   non_unique_combos, out_shp, zip_path>>
    /\ UNCHANGED notDedup

\* gdf_unique.to_file(out_shp)
ToFile ==
    /\ dpc = "write"
    /\ out_shp' = gdf_unique
    /\ dpc' = "zip"
    /\ UNCHANGED <<test_data_zip, gdf, combo_counts, unique_combos,
                   non_unique_combos, gdf_unique, zip_path>>
    /\ UNCHANGED notDedup

\* with zipfile.ZipFile(zip_path, 'w') as zf: ...
ZipShapefile ==
    /\ dpc = "zip"
    /\ zip_path' = out_shp
    /\ dpc' = "done"
    /\ UNCHANGED <<test_data_zip, gdf, combo_counts, unique_combos,
                   non_unique_combos, gdf_unique, out_shp>>
    /\ UNCHANGED notDedup

----------------------------------------------------------------------------
(* Notebook kernel: the names each cell binds and uses                     *)

\* A statement: the names its execution looks up, the names it binds, and
\* whether it is run always or only for a column of dtype object.
St(uses, defs) == [uses |-> uses, defs |-> defs, guard |-> "always"]

ObjSt(uses, defs) == [uses |-> uses, defs |-> defs, guard |-> "object column"]

\* Names of Python's builtins that the cells use.
Builtins == {"print", "len", "min", "max"}

\* import geopandas as gpd / from pathlib import Path / from ftfy import fix_text
ImportsCell ==
    <<St({}, {"gpd"}), St({}, {"Path"}), St({}, {"fix_text"})>>

\* test_data = gpd.read_file("/app/data/test_data.zip", encoding='utf-8')
ReadCell == <<St({"gpd"}, {"test_data"})>>

\* test_data.head()
HeadCell == <<St({"test_data"}, {})>>

\* def fix_column_encoding ...; for column in test_data.columns: if dtype
\* is object: test_data = fix_column_encoding(test_data, column), whose
\* body calls fix_text; test_data.head()
FixEncodingCell ==
    <<St({}, {"fix_column_encoding"}),
      St({"test_data"}, {"column"}),
      St({"test_data", "column"}, {}),
      ObjSt({"fix_column_encoding", "test_data", "column", "fix_text"},
            {"test_data"}),
      St({"test_data"}, {})>>

\* test_data = gpd.read_file(...); for column in test_data.columns: if dtype
\* is object: test_data[column] = test_data[column].apply(deep_fix_encoding)
DeepFixCell ==
    <<St({"gpd"}, {"test_data"}),
      St({"test_data"}, {"column"}),
      St({"test_data", "column"}, {}),
      ObjSt({"test_data", "column", "deep_fix_encoding"}, {})>>

\* the bounding-box reprojection cell
BboxCell ==
    <<St({}, {"Transformer"}),
      St({}, {"wgs_coords"}),
      St({"Transformer"}, {"transformer"}),
      St({"transformer", "wgs_coords"}, {"sw"}),
      St({"transformer", "wgs_coords"}, {"se"}),
      St({"transformer", "wgs_coords"}, {"ne"}),
      St({"transformer", "wgs_coords"}, {"nw"}),
      St({"min", "max", "sw", "se", "ne", "nw"}, {"etrs_coords"}),
      St({"print"}, {}),
      St({"print", "etrs_coords"}, {})>>

EmptyCell == <<>>

\* the deduplication cell
DedupCell ==
    <<St({}, {"gpd"}), St({}, {"Path"}), St({}, {"zipfile"}),
      St({"Path"}, {"shp_path"}),
      St({"gpd", "shp_path"}, {"gdf"}),
      St({}, {"name_col"}), St({}, {"mun_col"}),
      St({"print", "len", "gdf"}, {}),
      St({"gdf", "name_col", "mun_col"}, {"combo_counts"}),
      St({"combo_counts", "name_col", "mun_col"}, {"unique_combos"}),
      St({"combo_counts"}, {"non_unique_combos"}),
      St({"print", "len", "non_unique_combos"}, {}),
      St({"non_unique_combos"}, {}),
      St({"gdf", "unique_combos", "name_col", "mun_col"}, {"gdf_unique"}),
      St({"print", "len", "gdf", "gdf_unique"}, {}),
      St({"Path"}, {"out_dir"}),
      St({"out_dir"}, {}),
      St({"out_dir"}, {"out_shp"}),
      St({"gdf_unique", "out_shp"}, {}),
      St({"Path"}, {"zip_path"}),
      St({"zipfile", "zip_path"}, {"zf"}),
      St({"out_shp", "zf"}, {"ext", "f"}),
      St({"print", "zip_path"}, {})>>

\* The two notebooks, "check_data" (check_data.ipynb 1-211) and "second"
\* (README.md 106-262), as their cells in file order.
Notebooks == {"check_data", "second"}

Cells(nb) ==
    LET common == <<ImportsCell, ReadCell, HeadCell, FixEncodingCell,
                    DeepFixCell, HeadCell, BboxCell, EmptyCell>>
    IN IF nb = "check_data" THEN common \o <<DedupCell, EmptyCell>> ELSE common

\* The string columns of the test data, each of dtype object or not.
StringColumns == {"nimi", "kunta"}

KernelIdle ==
    /\ nbfile = "none"
    /\ objCols = {}
    /\ cellIdx = 0
    /\ stmtIdx = 0
    /\ ns = {}
    /\ kstatus = "idle"

InCell == kstatus = "running" /\ cellIdx <= Len(Cells(nbfile))

HasStatement == InCell /\ stmtIdx <= Len(Cells(nbfile)[cellIdx])

Statement == Cells(nbfile)[cellIdx][stmtIdx]

\* The statement is reached: always, or by a column of dtype object.
Reached(st) == st.guard = "always" \/ objCols # {}

\* Every name the statement looks up is bound.
Resolves(st) == st.uses \subseteq ns \cup Builtins

\* A statement runs: it binds its names.
ExecStatement ==
    /\ HasStatement /\ Reached(Statement) /\ Resolves(Statement)
    /\ ns' = ns \cup Statement.defs
    /\ stmtIdx' = stmtIdx + 1
    /\ UNCHANGED <<nbfile, objCols, cellIdx, kstatus>>
    /\ UNCHANGED notKernel

\* A statement under a condition that is false is passed over.
SkipStatement ==
    /\ HasStatement /\ ~Reached(Statement)
    /\ stmtIdx' = stmtIdx + 1
    /\ UNCHANGED <<nbfile, objCols, cellIdx, ns, kstatus>>
    /\ UNCHANGED notKernel

\* A statement looks up a name that is not bound: NameError; the run stops
\* and the cells after it are not executed.
RaiseNameError ==
    /\ HasStatement /\ Reached(Statement) /\ ~Resolves(Statement)
    /\ kstatus' = "NameError"
    /\ UNCHANGED <<nbfile, objCols, cellIdx, stmtIdx, ns>>
    /\ UNCHANGED notKernel

\* The cell is through: on to the next cell in file order.
NextCell ==
    /\ InCell /\ stmtIdx > Len(Cells(nbfile)[cellIdx])
    /\ cellIdx' = cellIdx + 1
    /\ stmtIdx' = 1
    /\ UNCHANGED <<nbfile, objCols, ns, kstatus>>
    /\ UNCHANGED notKernel

\* The last cell is through.
FinishRun ==
    /\ kstatus = "running" /\ cellIdx > Len(Cells(nbfile))
    /\ kstatus' = "finished"
    /\ UNCHANGED <<nbfile, objCols, cellIdx, stmtIdx, ns>>
    /\ UNCHANGED notKernel

----------------------------------------------------------------------------
(* Bounding-box reprojection cell of the notebook                          *)

\* wgs_coords of the cell, in thousandths of a degree.
WgsMinX == 20646

WgsMaxX == 31516

WgsMinY == 59846

WgsMaxY == 70164

\* EPSG:3067 (ETRS89 / TM35FIN): transverse Mercator on GRS80 with central
\* meridian 27 E (in thousandths of a degree), scale factor 0.9996 and
\* false easting 500 000 m.
CentralMeridian == 27000

FalseEasting == 500000

\* Subdivisions of the cell's box from which the input boxes are drawn.
GridSteps == 3

Grid(lo, hi) == {lo + (i * (hi - lo)) \div GridSteps : i \in 0..GridSteps}

\* The cell's box and the boxes inside it on the grid.
InputBoxes ==
    {b \in [minx : Grid(WgsMinX, WgsMaxX), maxx : Grid(WgsMinX, WgsMaxX),
            miny : Grid(WgsMinY, WgsMaxY), maxy : Grid(WgsMinY, WgsMaxY)] :
        b.minx < b.maxx /\ b.miny < b.maxy}

\* Fixed-point numbers: an integer n stands for n / 10000.
Mul(a, b) == (a * b) \div 10000

\* Radians (fixed point) of an angle in thousandths of a degree.
Rad(md) == (md * 17453) \div 100000

\* Sine and cosine by their series up to the ninth and eighth power.
Sin(p) ==
    LET p2 == Mul(p, p)
        p3 == Mul(p2, p)
        p5 == Mul(p3, p2)
        p7 == Mul(p5, p2)
        p9 == Mul(p7, p2)
    IN p - p3 \div 6 + p5 \div 120 - p7 \div 5040 + p9 \div 362880

Cos(p) ==
    LET p2 == Mul(p, p)
        p4 == Mul(p2, p2)
        p6 == Mul(p4, p2)
        p8 == Mul(p4, p4)
    IN 10000 - p2 \div 2 + p4 \div 24 - p6 \div 720 + p8 \div 40320

Tan(p) == (Sin(p) * 10000) \div Cos(p)

\* Easting in metres of (lon, lat): FalseEasting + k N (A + (1 - T) A^3/6)
\* with A = (lon - CentralMeridian) cos(lat), T = tan^2(lat) and
\* N = a (1 + e^2 sin^2(lat) / 2).
Easting(lon, lat) ==
    LET p == Rad(lat)
        araw == (lon - CentralMeridian) * Cos(p)
        x0 == ((araw \div 1000) * 11127) \div 1000
        nfac == ((33472 * Mul(Sin(p), Sin(p))) \div 10000) \div 1000
        x1 == x0 + (x0 * nfac) \div 10000
        afp == ((araw \div 1000) * 17453) \div 1000000
        T == Mul(Tan(p), Tan(p))
        corr == ((Mul(afp, afp) * (10000 - T)) \div 10000) \div 6
    IN FalseEasting + x1 + (x1 * corr) \div 10000

\* Northing in metres of (lon, lat): k (M + N tan(lat) A^2 / 2) with M the
\* meridian arc, k a lat - k 16038.5 sin(2 lat) + k 16.8 sin(4 lat).
Northing(lon, lat) ==
    LET p == Rad(lat)
        ylin == lat * 111 + (lat * 8851) \div 100000
        s2p == 2 * Mul(Sin(p), Cos(p))
        c2p == 10000 - 2 * Mul(Sin(p), Sin(p))
        s4p == 2 * Mul(s2p, c2p)
        xh == (Easting(lon, lat) - FalseEasting) \div 100
        q == ((xh * xh) \div 1000) * Tan(p)
        t2 == ((q \div 10000) * 7823) \div 10000
    IN ylin - (16032 * s2p) \div 10000 + (17 * s4p) \div 10000 + t2

\* transformer = Transformer.from_crs("EPSG:4326", "EPSG:3067",
\* always_xy=True); transformer.transform(x, y)
Transform(x, y) == <<Easting(x, y), Northing(x, y)>>

Min(a, b) == IF a <= b THEN a ELSE b

Max(a, b) == IF a >= b THEN a ELSE b

EtrsCoordsFromEastCorners(csw, cse, cne, cnw) ==
    [minx |-> Min(cse[1], cne[1]),
     maxx |-> Max(cse[1], cne[1]),
     miny |-> Min(csw[2], cse[2]),
     maxy |-> Max(cnw[2], cne[2])]

\* etrs_coords = {"minx": min(sw[0], nw[0]), "maxx": max(se[0], ne[0]),
\*                "miny": min(sw[1], se[1]), "maxy": max(nw[1], ne[1])}
EtrsCoords(csw, cse, cne, cnw) ==
    [minx |-> Min(csw[1], cnw[1]),
     maxx |-> Max(cse[1], cne[1]),
     miny |-> Min(csw[2], cse[2]),
     maxy |-> Max(cnw[2], cne[2])]

NoPoint == <<0, 0>>

NoBox == [minx |-> 0, maxx |-> 0, miny |-> 0, maxy |-> 0]

BboxIdle ==
    /\ bpc = "idle"
    /\ wgs_coords = NoBox
    /\ sw = NoPoint
    /\ se = NoPoint
    /\ ne = NoPoint
    /\ nw = NoPoint
    /\ etrs_coords = NoBox
    /\ bout = <<>>

\* sw = transformer.transform(wgs_coords["minx"], wgs_coords["miny"])
TransformSW ==
    /\ bpc = "sw"
    /\ sw' = Transform(wgs_coords.minx, wgs_coords.miny)
    /\ bpc' = "se"
    /\ UNCHANGED <<wgs_coords, se, ne, nw, etrs_coords, bout>>
    /\ UNCHANGED notBbox

\* se = transformer.transform(wgs_coords["maxx"], wgs_coords["miny"])
TransformSE ==
    /\ bpc = "se"
    /\ se' = Transform(wgs_coords.maxx, wgs_coords.miny)
    /\ bpc' = "ne"
    /\ UNCHANGED <<wgs_coords, sw, ne, nw, etrs_coords, bout>>
    /\ UNCHANGED notBbox

\* ne = transformer.transform(wgs_coords["maxx"], wgs_coords["maxy"])
TransformNE ==
    /\ bpc = "ne"
    /\ ne' = Transform(wgs_coords.maxx, wgs_coords.maxy)
    /\ bpc' = "nw"
    /\ UNCHANGED <<wgs_coords, sw, se, nw, etrs_coords, bout>>
    /\ UNCHANGED notBbox

\* nw = transformer.transform(wgs_coords["minx"], wgs_coords["maxy"])
TransformNW ==
    /\ bpc = "nw"
    /\ nw' = Transform(wgs_coords.minx, wgs_coords.maxy)
    /\ bpc' = "box"
    /\ UNCHANGED <<wgs_coords, sw, se, ne, etrs_coords, bout>>
    /\ UNCHANGED notBbox

\* etrs_coords = {...}
BoundingBox ==
    /\ bpc = "box"
    /\ etrs_coords' = EtrsCoords(sw, se, ne, nw)
    /\ bpc' = "print"
    /\ UNCHANGED <<wgs_coords, sw, se, ne, nw, bout>>
    /\ UNCHANGED notBbox

\* print("EPSG:3067 coordinates (ETRS89/TM35FIN):"); print(f"minx: ...") ...
PrintCoords ==
    /\ bpc = "print"
    /\ bout' = <<"EPSG:3067 coordinates (ETRS89/TM35FIN):",
                 <<"minx", etrs_coords.minx>>, <<"maxx", etrs_coords.maxx>>,
                 <<"miny", etrs_coords.miny>>, <<"maxy", etrs_coords.maxy>>>>
    /\ bpc' = "done"
    /\ UNCHANGED <<wgs_coords, sw, se, ne, nw, etrs_coords>>
    /\ UNCHANGED notBbox

----------------------------------------------------------------------------
(* Migration script                                                        *)

\* Values IS_PRODUCTION takes in this repository (compose: True / False,
\* the script: true) and the empty string.
EnvValues == {"", "true", "True", "False"}

ShellVars ==
    {Unset} \cup [set : {TRUE}, value : EnvValues, exported : BOOLEAN]

\* .env: absent, present without an assignment to IS_PRODUCTION, or present
\* with `IS_PRODUCTION=v` / `export IS_PRODUCTION=v`.
DotEnvFiles ==
    {[exists |-> FALSE, assigns |-> FALSE, value |-> "", export |-> FALSE],
     [exists |-> TRUE, assigns |-> FALSE, value |-> "", export |-> FALSE]}
    \cup [exists : {TRUE}, assigns : {TRUE}, value : EnvValues,
          export : BOOLEAN]

\* Exit statuses of alembic: success, migration error, command not found.
AlembicStatuses == {0, 1, 127}

\* source .env
SourceDotEnv(v, f) ==
    IF ~f.assigns THEN v
    ELSE IF f.export THEN Export(v, f.value) ELSE Assign(v, f.value)

ForceProductionLocal(v) == Assign(v, "true")

\* export IS_PRODUCTION=true
ForceProduction(v) == Export(v, "true")

\* if [ -z "$ORIGINAL_IS_PRODUCTION" ]; then unset ...; else export ...; fi
Restore(v, orig) == IF orig = "" THEN Unset ELSE Export(v, orig)

ExitStatusOfAlembic(rcAlembic, rcEcho) ==
    IF rcAlembic # 0 THEN rcAlembic ELSE rcEcho

\* No `set -e` and no `exit`: the script's status is its last command's.
ExitStatus(rcAlembic, rcEcho) == rcEcho

MigrationIdle ==
    /\ mpc = "idle"
    /\ isProd = Unset
    /\ isProd0 = Unset
    /\ origIsProd = ""
    /\ dotenv = [exists |-> FALSE, assigns |-> FALSE, value |-> "", export |-> FALSE]
    /\ alembicSaw = "<not run>"
    /\ alembicRc = -1
    /\ mout = <<>>
    /\ mexit = -1

InitMigration ==
    /\ mpc = "save"
    /\ isProd \in ShellVars
    /\ isProd0 = isProd
    /\ origIsProd = ""
    /\ dotenv \in DotEnvFiles
    /\ alembicSaw = "<not run>"
    /\ alembicRc = -1
    /\ mout = <<>>
    /\ mexit = -1
    /\ ComposeIdle
    /\ EntryIdle
    /\ DedupIdle
    /\ KernelIdle
    /\ BboxIdle

\* ORIGINAL_IS_PRODUCTION=$IS_PRODUCTION
SaveOriginal ==
    /\ mpc = "save"
    /\ origIsProd' = Expand(isProd)
    /\ mpc' = "dotenv"
    /\ UNCHANGED <<isProd, isProd0, dotenv, alembicSaw, alembicRc, mout, mexit>>
    /\ UNCHANGED notMigration

\* if [ -f .env ]; then source .env; fi
SourceEnvFile ==
    /\ mpc = "dotenv"
    /\ isProd' = IF dotenv.exists THEN SourceDotEnv(isProd, dotenv) ELSE isProd
    /\ mpc' = "force"
    /\ UNCHANGED <<isProd0, origIsProd, dotenv, alembicSaw, alembicRc, mout, mexit>>
    /\ UNCHANGED notMigration

\* export IS_PRODUCTION=true; echo "Running migrations in PRODUCTION mode..."
SetProduction ==
    /\ mpc = "force"
    /\ isProd' = ForceProduction(isProd)
    /\ mout' = Append(mout, "Running migrations in PRODUCTION mode...")
    /\ mpc' = "alembic"
    /\ UNCHANGED <<isProd0, origIsProd, dotenv, alembicSaw, alembicRc, mexit>>
    /\ UNCHANGED notMigration

\* alembic upgrade head
RunAlembic ==
    /\ mpc = "alembic"
    /\ alembicSaw' = ChildEnv(isProd)
    /\ \E rc \in AlembicStatuses : alembicRc' = rc
    /\ mpc' = "restore"
    /\ UNCHANGED <<isProd, isProd0, origIsProd, dotenv, mout, mexit>>
    /\ UNCHANGED notMigration

\* the restore step
RestoreOriginal ==
    /\ mpc = "restore"
    /\ isProd' = Restore(isProd, origIsProd)
    /\ mpc' = "echo"
    /\ UNCHANGED <<isProd0, origIsProd, dotenv, alembicSaw, alembicRc, mout, mexit>>
    /\ UNCHANGED notMigration

\* echo "Migration complete", then the end of the script
EchoComplete ==
    /\ mpc = "echo"
    /\ mout' = Append(mout, "Migration complete")
    /\ mexit' = ExitStatus(alembicRc, 0)
    /\ mpc' = "done"
    /\ UNCHANGED <<isProd, isProd0, origIsProd, dotenv, alembicSaw, alembicRc>>
    /\ UNCHANGED notMigration

NextMigration ==
    \/ SaveOriginal
    \/ SourceEnvFile
    \/ SetProduction
    \/ RunAlembic
    \/ RestoreOriginal
    \/ EchoComplete

SpecMigration == InitMigration /\ [][NextMigration]_vars

InitCompose ==
    /\ ComposeIdle /\ MigrationIdle /\ EntryIdle /\ DedupIdle /\ KernelIdle
    /\ BboxIdle

InitEntry ==
    /\ script \in EntrypointScripts
    /\ epc = 1
    /\ fg = "none"
    /\ installRc = -1
    /\ web = NoProcess
    /\ notebook = NoProcess
    /\ launched = <<>>
    /\ notebookToken \in {Unset} \cup
           [set : {TRUE}, value : TokenValues, exported : {TRUE}]
    /\ lastRequest = [made |-> FALSE, token |-> "<none>", accepted |-> FALSE]
    /\ rootHist \in IF script = "dev"
                    THEN [kind : {"file"}, content : HistContents]
                         \cup {[kind |-> "symlink", content |-> ""]}
                    ELSE {FreshRootHist}
    /\ devHist \in IF script = "dev"
                   THEN {NoDevHist} \cup [exists : {TRUE}, content : HistContents]
                   ELSE {NoDevHist}
    /\ lastRc = 0
    /\ eexit = -1
    /\ starts = 1
    /\ MigrationIdle
    /\ ComposeIdle
    /\ DedupIdle
    /\ KernelIdle
    /\ BboxIdle

\* "Run All" on a fresh kernel.
InitKernel ==
    /\ nbfile \in Notebooks
    /\ objCols \in SUBSET StringColumns
    /\ cellIdx = 1
    /\ stmtIdx = 1
    /\ ns = {}
    /\ kstatus = "running"
    /\ MigrationIdle
    /\ ComposeIdle
    /\ EntryIdle
    /\ DedupIdle
    /\ BboxIdle

NextKernel ==
    \/ ExecStatement
    \/ SkipStatement
    \/ RaiseNameError
    \/ NextCell
    \/ FinishRun

SpecKernel == InitKernel /\ [][NextKernel]_vars

ScriptStep ==
    \/ SeedHistory
    \/ SourceBashrc
    \/ PoetryInstall
    \/ LaunchUvicorn
    \/ LaunchJupyter
    \/ LaunchGunicorn
    \/ ForegroundReturns
    \/ ScriptEnd

NextEntry ==
    \/ SeedHistory
    \/ SourceBashrc
    \/ PoetryInstall
    \/ LaunchUvicorn
    \/ LaunchJupyter
    \/ LaunchGunicorn
    \/ ForegroundReturns
    \/ ScriptEnd
    \/ WebListen
    \/ WebExit
    \/ NotebookListen
    \/ NotebookExit
    \/ \E presented \in RequestTokens : NotebookRequest(presented)
    \/ RestartContainer

SpecEntry == InitEntry /\ [][NextEntry]_vars

\* The shell runs the script's next command whenever it can, and a process
\* that has been started and does not fail gets to listen; nothing makes a
\* process succeed or exit.
FairSpecEntry ==
    /\ SpecEntry
    /\ WF_vars(ScriptStep)
    /\ WF_vars(WebListen)
    /\ WF_vars(NotebookListen)

NextCompose ==
    \/ \E profiles \in SUBSET ProfileNames : ComposeUp(profiles)
    \/ DevcontainerUp
    \/ \E s \in Services : ContainerExit(s)
    \/ \E s \in Services : ContainerRestart(s)

SpecCompose == InitCompose /\ [][NextCompose]_vars

InitDedup ==
    /\ dpc = "read"
    /\ test_data_zip \in InputFiles
    /\ gdf = <<>>
    /\ combo_counts = {}
    /\ unique_combos = {}
    /\ non_unique_combos = {}
    /\ gdf_unique = <<>>
    /\ out_shp = <<>>
    /\ zip_path = <<>>
    /\ MigrationIdle
    /\ ComposeIdle
    /\ EntryIdle
    /\ KernelIdle
    /\ BboxIdle

NextDedup ==
    \/ ReadFile
    \/ CountCombos
    \/ SelectCombos
    \/ MergeUnique
    \/ ToFile
    \/ ZipShapefile

SpecDedup == InitDedup /\ [][NextDedup]_vars

InitBbox ==
    /\ bpc = "sw"
    /\ wgs_coords \in InputBoxes
    /\ sw = NoPoint
    /\ se = NoPoint
    /\ ne = NoPoint
    /\ nw = NoPoint
    /\ etrs_coords = NoBox
    /\ bout = <<>>
    /\ MigrationIdle
    /\ ComposeIdle
    /\ EntryIdle
    /\ DedupIdle
    /\ KernelIdle

NextBbox ==
    \/ TransformSW
    \/ TransformSE
    \/ TransformNE
    \/ TransformNW
    \/ BoundingBox
    \/ PrintCoords

SpecBbox == InitBbox /\ [][NextBbox]_vars

\* C1: at the end of the migration script IS_PRODUCTION is in the state it
\* had before the script started: unset if it was unset, and set to the same
\* value if it was set (the empty string included).
C1_RestoresPriorState ==
    mpc = "done" =>
        /\ isProd.set = isProd0.set
        /\ isProd0.set => isProd.value = isProd0.value

\* C2: `alembic upgrade head` is only ever executed while IS_PRODUCTION is
\* exported with the value true: the script is about to run alembic only
\* with the variable exported as true, and the alembic process never saw
\* anything else.
C2_AlembicOnlyInProduction ==
    /\ mpc = "alembic" => ChildEnv(isProd) = "true"
    /\ alembicSaw \in {"<not run>", "true"}

\* C2 witness: alembic has run although IS_PRODUCTION started out as
\* something other than an exported true and .env assigned another value.
C2_Witness ==
    /\ alembicSaw = "true"
    /\ ChildEnv(isProd0) # "true"
    /\ dotenv.assigns /\ dotenv.value = "False"

\* C3: the script has no failure branch: whatever alembic's exit status,
\* once alembic has run the script goes on to the restore step, and at its
\* end the restore step has acted (IS_PRODUCTION is no longer the forced
\* value unless that is what was saved), "Migration complete" is the last
\* line printed and the script exits with status 0.
C3_NoFailureBranch ==
    /\ (alembicRc # -1) => mpc \in {"restore", "echo", "done"}
    /\ mpc = "done" =>
          /\ alembicRc \in AlembicStatuses
          /\ isProd = IF origIsProd = "" THEN Unset
                      ELSE [set |-> TRUE, value |-> origIsProd, exported |-> TRUE]
          /\ mout[Len(mout)] = "Migration complete"
          /\ mexit = 0

\* C3 witness: the script completed after a failed migration.
C3_Witness == mpc = "done" /\ alembicRc = 1 /\ mexit = 0

Running == {s \in Services : container[s] = "running"}

\* C4: the Compose profile selects which containers run: `up` with profile
\* dev starts exactly app-dev, postgis-dev and postgis-test, with profile
\* sandbox exactly app-sandbox and postgis-test; so under either single
\* profile exactly one application container is started and postgis-test
\* with it, and every started service is attached to luonnonmetsakartta-net.
C4_ProfileSelectsContainers ==
    /\ (upBy = "compose" /\ composeProfiles = {"dev"}) =>
          started = {"app-dev", "postgis-dev", "postgis-test"}
    /\ (upBy = "compose" /\ composeProfiles = {"sandbox"}) =>
          started = {"app-sandbox", "postgis-test"}
    /\ (upBy = "compose" /\ composeProfiles \in {{"dev"}, {"sandbox"}}) =>
          /\ Cardinality(started \cap AppServices) = 1
          /\ "postgis-test" \in started
    /\ upBy = "compose" =>
          \A s \in started : attached[s] = {"luonnonmetsakartta-net"}
    /\ \A s \in Running : "luonnonmetsakartta-net" \in attached[s]

\* C4 witness: the sandbox profile is up with its two containers running,
\* after the dev profile's containers were up before.
C4_Witness ==
    /\ upBy = "compose" /\ composeProfiles = {"sandbox"}
    /\ {"app-sandbox", "postgis-test"} \subseteq Running
    /\ container["app-dev"] # "absent"

\* C5: the devcontainer's service and runServices match the sandbox
\* profile: once the devcontainer is up, its editing service and every
\* service of runServices is a service of docker-compose.yml that belongs
\* to the sandbox profile.
C5_DevcontainerMatchesProfile ==
    upBy = "devcontainer" =>
        \A s \in RunServices \cup {DevcontainerService} :
            s \in Services /\ "sandbox" \in ServiceProfiles(s)

\* The entrypoint of a dev/sandbox application container has run past
\* `poetry install`.
PastInstall == script \in NotebookScripts /\ installRc # -1

BothListening ==
    /\ web.state = "listening" /\ web.bind = <<"0.0.0.0", "80">>
    /\ notebook.state = "listening" /\ notebook.bind = <<"*", "8888">>

\* C6 as stated: once a dev/sandbox entrypoint has run past dependency
\* installation, a web server is listening on 0.0.0.0:80 and a notebook
\* server is listening on all interfaces on port 8888.
C6_BothServersListen == PastInstall ~> BothListening

\* C6 as amended: once a dev/sandbox entrypoint has run past dependency
\* installation it launches the web process and the notebook server; the
\* web process, whenever it listens, listens on 0.0.0.0:80, the container
\* port Compose publishes on DEV_PORT, and the notebook server, whenever it
\* listens, listens on all interfaces on 8888, the container port Compose
\* publishes on NOTEBOOK_PORT.  Neither is bound to get as far as listening.
C6_BothServersLaunched ==
    /\ [](web.state = "listening" =>
            /\ web.bind = <<"0.0.0.0", "80">>
            /\ \A s \in AppServices : <<"DEV_PORT", web.bind[2]>> \in PublishedPorts(s))
    /\ [](notebook.state = "listening" =>
            /\ notebook.bind[1] = "*"
            /\ \A s \in AppServices :
                   <<"NOTEBOOK_PORT", notebook.bind[2]>> \in PublishedPorts(s))
    /\ (PastInstall ~> (web.state # "none" /\ notebook.state # "none"))

\* C6 witness: both servers of the dev entrypoint listen at once.
C6_Witness == script = "dev" /\ PastInstall /\ BothListening

\* C7: the notebook server is token-authenticated via NOTEBOOK_TOKEN: for
\* every value of NOTEBOOK_TOKEN (unset and empty included) a request is
\* accepted only when it presents a token equal to NOTEBOOK_TOKEN, and no
\* request without a token is ever accepted.
C7_TokenAuthenticated ==
    (lastRequest.made /\ lastRequest.accepted) =>
        /\ lastRequest.token # "<none>"
        /\ lastRequest.token = Expand(notebookToken)

\* C8: the web server is launched, in the background, strictly before the
\* notebook server: whenever the notebook server has been launched the web
\* process was launched before it, and the script did not wait for the web
\* process to listen or to exit.
C8_WebLaunchedFirst ==
    script \in NotebookScripts =>
        /\ notebook.state # "none" => web.state # "none"
        /\ launched \in {<<>>, <<"web">>, <<"web", "notebook">>}
        /\ fg # "web"

\* C8 witness: the notebook server serves while the web server, launched
\* before it, is not listening yet.
C8_Witness ==
    /\ script \in NotebookScripts
    /\ notebook.state = "listening"
    /\ web.state = "starting"

Rows(seq) == {seq[i] : i \in DOMAIN seq}

\* C9: the re-exported features have pairwise distinct (nimi, kunta) keys
\* and are exactly the input features whose (nimi, kunta) key occurs exactly
\* once in the input.
C9_KeepsExactlyTheUniqueKeys ==
    dpc = "done" =>
        /\ \A i, j \in DOMAIN zip_path :
               Key(zip_path[i]) = Key(zip_path[j]) => i = j
        /\ Rows(zip_path) =
               {r \in Rows(test_data_zip) : Count(test_data_zip, Key(r)) = 1}

\* C10: each notebook runs linearly top-to-bottom: executing the cells in
\* file order from a fresh kernel, no cell stops the run with an undefined
\* name.
C10_NoUndefinedName == kstatus # "NameError"

\* The history-seeding step of the dev entrypoint is taken.
SeedStep == script = "dev" /\ Cmd = "history" /\ epc' = epc + 1

\* C11 as stated: from every starting state the step leaves
\* /root/.bash_history a symlink, keeps a persisted history that existed,
\* and creates the persisted file from the previous /root/.bash_history
\* contents when none existed; taken again, it changes nothing.
C11_SeedsHistory ==
    [][SeedStep =>
        /\ rootHist'.kind = "symlink"
        /\ devHist.exists => devHist' = devHist
        /\ ~devHist.exists =>
              devHist' = [exists |-> TRUE, content |-> rootHist.content]
        /\ starts > 1 => UNCHANGED <<rootHist, devHist>>]_vars

\* C11 as amended: from every starting state the step leaves
\* /root/.bash_history a symlink and keeps a persisted history that
\* existed; when none existed it creates the persisted file from the
\* previous /root/.bash_history contents if that was a regular file, and
\* creates nothing (the symlink dangles) if it was already the symlink;
\* taken again, it changes nothing.
C11_SeedsHistoryFromRegularFile ==
    [][SeedStep =>
        /\ rootHist'.kind = "symlink"
        /\ devHist.exists => devHist' = devHist
        /\ (~devHist.exists /\ rootHist.kind = "file") =>
              devHist' = [exists |-> TRUE, content |-> rootHist.content]
        /\ (~devHist.exists /\ rootHist.kind = "symlink") => ~devHist'.exists
        /\ starts > 1 => UNCHANGED <<rootHist, devHist>>]_vars

\* C11 witness: the dev container was started a second time and the step
\* has run again, on a persisted history that its first run created from
\* the container's history.
C11_Witness ==
    /\ script = "dev" /\ starts = 2 /\ epc > 1
    /\ rootHist.kind = "symlink"
    /\ devHist = [exists |-> TRUE, content |-> "container history"]

Inside(pt, box) ==
    /\ box.minx <= pt[1] /\ pt[1] <= box.maxx
    /\ box.miny <= pt[2] /\ pt[2] <= box.maxy

\* C12: the box the reprojection cell yields is well-formed, minx <= maxx
\* and miny <= maxy, and contains all four transformed corners sw, se, ne
\* and nw.
C12_BoxEnclosesCorners ==
    bpc \in {"print", "done"} =>
        /\ etrs_coords.minx <= etrs_coords.maxx
        /\ etrs_coords.miny <= etrs_coords.maxy
        /\ \A pt \in {sw, se, ne, nw} : Inside(pt, etrs_coords)

Near(a, b) == a - b \in -100..100

\* C12 witness: the cell has run on its own box and printed, to within
\* 100 m, the coordinates recorded in the notebook's output.
C12_Witness ==
    /\ bpc = "done"
    /\ wgs_coords = [minx |-> WgsMinX, maxx |-> WgsMaxX,
                     miny |-> WgsMinY, maxy |-> WgsMaxY]
    /\ Near(bout[2][2], 144286) /\ Near(bout[3][2], 752934)
    /\ Near(bout[4][2], 6642928) /\ Near(bout[5][2], 7796732)

ServersLaunched ==
    /\ "web" \in Rows(launched)
    /\ script \in NotebookScripts => "notebook" \in Rows(launched)

\* C13: in every entrypoint script no server process is started before
\* `poetry install` has returned, and a failing `poetry install` does not
\* stop the script: whatever the exit status of the install step, the web
\* process and, in the dev/sandbox scripts, the notebook server are
\* launched after it.
C13_LaunchAfterInstall ==
    /\ [](script \in EntrypointScripts =>
            ((launched # <<>> \/ web.state # "none" \/ notebook.state # "none")
                => installRc # -1))
    /\ [][(Cmd = "install" /\ installRc' # installRc /\ starts' = starts)
            => (epc' = epc + 1 /\ eexit' = -1)]_vars
    /\ \A rc \in ExitStatuses :
           (script \in EntrypointScripts /\ installRc = rc)
               ~> (installRc = rc /\ ServersLaunched)

\* C13 witness: `poetry install` failed in the sandbox entrypoint and both
\* servers were launched after it.
C13_Witness ==
    /\ script = "sandbox"
    /\ installRc = 1
    /\ launched = <<"web", "notebook">>

ScriptEnded == eexit # -1

\* C14: in the dev/sandbox entrypoints the script ends exactly when the
\* foreground notebook server exits: the script never ends while the
\* notebook server has not exited, an exit of the web process changes
\* nothing in the script and the exited web process is never started again
\* by it, and once the notebook server has exited the script ends, also
\* when the web process is still running.
C14_EndsWithNotebook ==
    /\ [][(script \in NotebookScripts /\ ~ScriptEnded /\ ScriptEnded')
            => notebook.state = "exited"]_vars
    /\ [][(script \in NotebookScripts /\ ~ScriptEnded
             /\ web.state # "exited" /\ web'.state = "exited"
             /\ web'.rc \in ExitStatuses)
            => UNCHANGED <<epc, fg, lastRc, eexit, notebook, launched>>]_vars
    /\ [][(script \in NotebookScripts /\ web.state = "exited"
             /\ starts' = starts)
            => web' = web]_vars
    /\ \A w \in {"starting", "listening", "exited"} :
           (script \in NotebookScripts /\ ~ScriptEnded
              /\ notebook.state = "exited" /\ web.state = w)
               ~> ScriptEnded

\* C14 witness: the notebook server crashed while the web process was still
\* running, and the script has ended, which ended the web process.
C14_Witness ==
    /\ script \in NotebookScripts
    /\ ScriptEnded
    /\ notebook.rc = 1
    /\ web.rc = 137

====
